---- MODULE Spec2Model ----
(***************************************************************************)
(* Model of src/huffmanCompressor.py: the class Huffman, its working       *)
(* string, its output and its comp_tools, and the methods new_worker,      *)
(* compress and decompress.                                                *)
(*                                                                         *)
(* Python values are represented as follows.                               *)
(*   bytes / bytearray   a sequence of integers 0..255                     *)
(*   a "bit string"      a sequence of 0s and 1s ("0" is 0, "1" is 1)      *)
(*   a dict              frequency: a sequence of <<key, count>> pairs in  *)
(*                       insertion order (sorted() reads that order);      *)
(*                       trace: a function from keys to bit strings        *)
(*   a tree element      a record [tag, val, kids]: tag "int" is a byte    *)
(*                       value (a leaf), tag "list" is a Python list       *)
(*   an exception        the field err of an operator's result, "None"     *)
(*                       when the call returns normally                    *)
(* File output (new_out, export_product) is input/output only and is not   *)
(* part of the model: every call is made with export = False.              *)
(***************************************************************************)
EXTENDS Integers, Sequences, FiniteSets, TLC

VARIABLES worker, output, comp_tools, call, probe

vars == <<worker, output, comp_tools, call, probe>>

(***************************************************************************)
(* Bounds of the model.                                                    *)
(***************************************************************************)
\* longest buffer handed to the constructor
MaxLen == 4
\* longest buffer handed to a later call as alt_in / new_in
MaxAltLen == 1
\* how far a forged tree_length field may exceed the bytes that remain
MaxExcess == 2

\* the byte values buffers are made of: b"a" .. b"d".  compress treats byte
\* values alike (it compares them for equality only), and four of them give
\* every tree shape of up to four leaves
Alphabet == {97, 98, 99, 100}

SeqsUpTo(S, n) == UNION {[1..k -> S] : k \in 0..n}

Buffers == SeqsUpTo(Alphabet, MaxLen)

AltBuffers == SeqsUpTo(Alphabet, MaxAltLen)

Min(a, b) == IF a < b THEN a ELSE b

Max(a, b) == IF a > b THEN a ELSE b

(***************************************************************************)
(* Python sequence primitives.                                             *)
(***************************************************************************)
\* s[a:b] for 0 <= a, 0 <= b: clamped to the sequence, never raising
PySlice(s, a, b) == SubSeq(s, a + 1, Min(b, Len(s)))

\* s[:stop] for any integer stop: a negative stop counts from the end
PySliceTo(s, stop) ==
    IF stop < 0 THEN SubSeq(s, 1, Max(Len(s) + stop, 0))
    ELSE SubSeq(s, 1, Min(stop, Len(s)))

\* s[i] read without the range check: 0 past the end
ByteAtUnchecked(s, i) ==
    IF i < Len(s) THEN [err |-> "None", val |-> s[i + 1]]
    ELSE [err |-> "None", val |-> 0]

\* s[i] for i >= 0 (0-based): IndexError when i is out of range
ByteAt(s, i) ==
    IF i < Len(s) THEN [err |-> "None", val |-> s[i + 1]]
    ELSE [err |-> "IndexError", val |-> 0]

RECURSIVE Concat(_)
\* "".join(parts) / the concatenation of a sequence of sequences
Concat(parts) ==
    IF parts = <<>> THEN <<>> ELSE Head(parts) \o Concat(Tail(parts))

\* a | b on dicts: b's entries win
DictMerge(a, b) ==
    [k \in (DOMAIN a) \cup (DOMAIN b) |-> IF k \in DOMAIN b THEN b[k] ELSE a[k]]

(***************************************************************************)
(* Tree elements.                                                          *)
(***************************************************************************)
MkInt(v) == [tag |-> "int", val |-> v, kids |-> <<>>]

MkList(kids) == [tag |-> "list", val |-> 0, kids |-> kids]

\* the marker object pickle's MARK opcode pushes
MkMark == [tag |-> "mark", val |-> 0, kids |-> <<>>]

\* isinstance(x, int)
IsInt(x) == x.tag = "int"

EmptyTools == [frequency |-> <<>>, tree |-> MkList(<<>>), trace |-> <<>>]

(***************************************************************************)
(* compress, lines 137-143: the frequency dict, keys in order of first     *)
(* appearance.                                                             *)
(***************************************************************************)
RECURSIVE CountFrom(_, _, _)
CountFrom(w, i, working_frequency) ==
    IF i > Len(w) THEN working_frequency
    ELSE LET char == w[i]
             hit == {j \in 1..Len(working_frequency) : working_frequency[j][1] = char}
         IN IF hit # {}
            THEN CountFrom(w, i + 1,
                     [working_frequency EXCEPT ![CHOOSE j \in hit : TRUE][2] = @ + 1])
            ELSE CountFrom(w, i + 1, Append(working_frequency, <<char, 1>>))

CountFrequency(w) == CountFrom(w, 1, <<>>)

(***************************************************************************)
(* sorted(items, key=lambda keys: keys[1], reverse=True): a stable sort,   *)
(* highest key first, equal keys in their original order.  keys[1] of the  *)
(* Python tuple is component 2 here.                                       *)
(***************************************************************************)
InsertDesc(acc, x) ==
    LET k == Cardinality({j \in 1..Len(acc) : acc[j][2] >= x[2]})
    IN SubSeq(acc, 1, k) \o <<x>> \o SubSeq(acc, k + 1, Len(acc))

InsertAsc(acc, x) ==
    LET k == Cardinality({j \in 1..Len(acc) : acc[j][2] <= x[2]})
    IN SubSeq(acc, 1, k) \o <<x>> \o SubSeq(acc, k + 1, Len(acc))

RECURSIVE SortFromAsc(_, _, _)
SortFromAsc(s, i, acc) ==
    IF i > Len(s) THEN acc ELSE SortFromAsc(s, i + 1, InsertAsc(acc, s[i]))

RECURSIVE SortFrom(_, _, _)
SortFrom(s, i, acc) ==
    IF i > Len(s) THEN acc ELSE SortFrom(s, i + 1, InsertDesc(acc, s[i]))

\* the sort without reverse=True
SortAsc(s) == SortFromAsc(s, 1, <<>>)

SortDesc(s) == SortFrom(s, 1, <<>>)

(***************************************************************************)
(* compress, lines 150-169: the tree builder.  A candidate is the tuple    *)
(* <<element, frequency, trace dict>>.                                     *)
(***************************************************************************)
\* line 154, with the bit put behind the code instead of in front of it
char_count_append(app_val, count_loc) ==
    [char \in DOMAIN count_loc |-> count_loc[char] \o <<app_val>>]

\* line 154: the lambda char_count
char_count(app_val, count_loc) ==
    [char \in DOMAIN count_loc |-> <<app_val>> \o count_loc[char]]

\* lines 150-151
InitCandidates(frequency) ==
    LET s == SortDesc(frequency)
    IN [i \in 1..Len(s) |-> <<MkInt(s[i][1]), s[i][2], (s[i][1] :> <<>>)>>]

\* lines 160-164 with the two children of the branch exchanged
NewBranchSwapped(set1, set2) ==
    <<MkList(<<set2[1], set1[1]>>),
      set1[2] + set2[2],
      DictMerge(char_count(0, set1[3]), char_count(1, set2[3]))>>

\* lines 160-164: new_branch
NewBranch(set1, set2) ==
    <<MkList(<<set1[1], set2[1]>>),
      set1[2] + set2[2],
      DictMerge(char_count(0, set1[3]), char_count(1, set2[3]))>>

Freqs(sf) == [i \in 1..Len(sf) |-> sf[i][2]]

RECURSIVE MergeLoop(_, _)
\* lines 156-169: the while loop; log records, for every pass, the
\* frequencies of the two candidates popped, of those left, and of the
\* branch appended
MergeLoop(sorted_frequency, log) ==
    IF Len(sorted_frequency) <= 2
    THEN [sorted_frequency |-> sorted_frequency, log |-> log]
    ELSE LET n == Len(sorted_frequency)
             set1 == sorted_frequency[n]
             set2 == sorted_frequency[n - 1]
             rest == SubSeq(sorted_frequency, 1, n - 2)
             new_branch == NewBranch(set1, set2)
         IN MergeLoop(SortDesc(Append(rest, new_branch)),
                      Append(log, [set1 |-> set1[2], set2 |-> set2[2],
                                   left |-> Freqs(rest), branch |-> new_branch[2]]))

(***************************************************************************)
(* compress, lines 177-192: the bit packer.                                *)
(***************************************************************************)
\* line 177
Encode(trace, w) == Concat([i \in 1..Len(w) |-> trace[w[i]]])

RECURSIVE PadLoopAtLeastOnce(_, _)
\* lines 181-184 as a do-while loop
PadLoopAtLeastOnce(encoded, padding) ==
    IF (Len(encoded) + 1) % 8 # 0
    THEN PadLoopAtLeastOnce(Append(encoded, 1), padding + 1)
    ELSE [encoded |-> Append(encoded, 1), padding |-> padding + 1]

RECURSIVE PadLoop(_, _)
\* lines 181-184
PadLoop(encoded, padding) ==
    IF Len(encoded) % 8 # 0
    THEN PadLoop(Append(encoded, 1), padding + 1)
    ELSE [encoded |-> encoded, padding |-> padding]

RECURSIVE BitsToInt(_)
\* int(bits, 2)
BitsToInt(bits) ==
    IF bits = <<>> THEN 0
    ELSE 2 * BitsToInt(SubSeq(bits, 1, Len(bits) - 1)) + bits[Len(bits)]

\* lines 188-190
Chunk(padding, encoded) ==
    <<padding>> \o [c \in 1..(Len(encoded) \div 8) |->
                       BitsToInt(SubSeq(encoded, 8 * (c - 1) + 1, 8 * c))]

(***************************************************************************)
(* pickle.dumps and pickle.loads (line 22), protocol 4, for the objects    *)
(* compress hands them: lists of ints 0..255 and of such lists.  The       *)
(* opcodes are the ones the pickler writes for these objects, plus APPEND. *)
(* Any other opcode byte ends loads with an error: over the byte values    *)
(* of Alphabet an unknown opcode either underflows the empty stack or      *)
(* runs out of input.                                                      *)
(***************************************************************************)
Op == [PROTO |-> 128, FRAME |-> 149, EMPTY_LIST |-> 93, MEMOIZE |-> 148,
       MARK |-> 40, BININT1 |-> 75, APPEND |-> 97, APPENDS |-> 101,
       STOP |-> 46, PROTOCOL |-> 4, FRAME_SIZE_MIN |-> 4]

RECURSIVE ToLE(_, _)
\* n.to_bytes(k, "little")
ToLE(n, k) == IF k = 0 THEN <<>> ELSE <<n % 256>> \o ToLE(n \div 256, k - 1)

\* the argument of the FRAME opcode: the length of the frame in 8 bytes
LE8(n) == ToLE(n, 8)

RECURSIVE FromLE(_)
\* int.from_bytes(b, "little")
FromLE(b) == IF b = <<>> THEN 0 ELSE b[1] + 256 * FromLE(Tail(b))

RECURSIVE save(_)
\* the pickler's save(): BININT1 for an int, EMPTY_LIST MEMOIZE and the
\* batched appends for a list
save(obj) ==
    IF IsInt(obj) THEN <<Op.BININT1, obj.val>>
    ELSE <<Op.EMPTY_LIST, Op.MEMOIZE>> \o
         (IF Len(obj.kids) = 0 THEN <<>>
          ELSE IF Len(obj.kids) = 1 THEN save(obj.kids[1]) \o <<Op.APPEND>>
          ELSE <<Op.MARK>> \o
               Concat([i \in 1..Len(obj.kids) |-> save(obj.kids[i])]) \o
               <<Op.APPENDS>>)

\* line 198: dumps(self.comp_tools["tree"])
dumps(obj) ==
    LET payload == save(obj) \o <<Op.STOP>>
    IN <<Op.PROTO, Op.PROTOCOL>> \o
       (IF Len(payload) >= Op.FRAME_SIZE_MIN
        THEN <<Op.FRAME>> \o LE8(Len(payload)) ELSE <<>>) \o
       payload

TopMark(stack) ==
    LET marks == {j \in 1..Len(stack) : stack[j].tag = "mark"}
    IN IF marks = {} THEN 0 ELSE CHOOSE j \in marks : \A k \in marks : k <= j

PickleError(name) == [err |-> name, obj |-> MkList(<<>>)]

RECURSIVE Unpickle(_, _, _)
\* the unpickler's loop: i is the (1-based) position of the next opcode.
\* Running out of input is EOFError where an opcode is due and
\* UnpicklingError ("pickle data was truncated") inside an argument or frame
Unpickle(data, i, stack) ==
    IF i > Len(data) THEN PickleError("EOFError")
    ELSE LET op == data[i] IN
      CASE op = Op.PROTO ->
             IF i + 1 > Len(data) THEN PickleError("UnpicklingError")
             ELSE IF data[i + 1] > 5 THEN PickleError("ValueError")
             ELSE Unpickle(data, i + 2, stack)
        [] op = Op.FRAME ->
             IF i + 8 > Len(data) THEN PickleError("UnpicklingError")
             ELSE IF FromLE(SubSeq(data, i + 1, i + 8)) > Len(data) - (i + 8)
                  THEN PickleError("UnpicklingError")
             ELSE Unpickle(data, i + 9, stack)
        [] op = Op.EMPTY_LIST -> Unpickle(data, i + 1, Append(stack, MkList(<<>>)))
        [] op = Op.MEMOIZE ->
             IF stack = <<>> THEN PickleError("UnpicklingError")
             ELSE Unpickle(data, i + 1, stack)
        [] op = Op.MARK -> Unpickle(data, i + 1, Append(stack, MkMark))
        [] op = Op.BININT1 ->
             IF i + 1 > Len(data) THEN PickleError("UnpicklingError")
             ELSE Unpickle(data, i + 2, Append(stack, MkInt(data[i + 1])))
        [] op = Op.APPENDS ->
             LET m == TopMark(stack) IN
             IF m < 2 \/ stack[Max(m - 1, 1)].tag # "list"
             THEN PickleError("UnpicklingError")
             ELSE Unpickle(data, i + 1,
                      Append(SubSeq(stack, 1, m - 2),
                             MkList(stack[m - 1].kids \o SubSeq(stack, m + 1, Len(stack)))))
        [] op = Op.APPEND ->
             LET n == Len(stack) IN
             IF n < 2 \/ stack[Max(n - 1, 1)].tag # "list" \/ stack[Max(n, 1)].tag = "mark"
             THEN PickleError("UnpicklingError")
             ELSE Unpickle(data, i + 1,
                      Append(SubSeq(stack, 1, n - 2),
                             MkList(Append(stack[n - 1].kids, stack[n]))))
        [] op = Op.STOP ->
             IF stack = <<>> \/ stack[Max(Len(stack), 1)].tag = "mark"
             THEN PickleError("UnpicklingError")
             ELSE [err |-> "None", obj |-> stack[Len(stack)]]
        [] OTHER -> PickleError("UnpicklingError")

\* line 236: loads(...)
loads(data) == Unpickle(data, 1, <<>>)

(***************************************************************************)
(* compress, lines 197-202: the frame.                                     *)
(***************************************************************************)
\* len(pickle_tree).to_bytes(2, "big"): OverflowError from 65536 on
ToBytes2(n) ==
    IF n >= 65536 THEN [err |-> "OverflowError", val |-> <<>>]
    ELSE [err |-> "None", val |-> <<n \div 256, n % 256>>]

RECURSIVE FromBig(_)
\* int.from_bytes(b, "big")
FromBig(b) ==
    IF b = <<>> THEN 0 ELSE 256 * FromBig(SubSeq(b, 1, Len(b) - 1)) + b[Len(b)]

(***************************************************************************)
(* The instance: self = [worker, output, comp_tools].                      *)
(***************************************************************************)
\* lines 59-90, for new_in of type bytes
new_worker(self, new_in) ==
    [worker |-> new_in, output |-> <<>>, comp_tools |-> EmptyTools]

\* lines 38-57: Huffman(content_in)
NewInstance(content_in) ==
    new_worker([worker |-> <<>>, output |-> <<>>, comp_tools |-> EmptyTools], content_in)

\* an optional argument: None, or a bytes object
NoAlt == [given |-> FALSE, buf |-> <<>>]

Alt(b) == [given |-> TRUE, buf |-> b]

\* "if alt_in:" -- None and b"" are both false
Truthy(alt_in) == alt_in.given /\ Len(alt_in.buf) > 0

NoProbe ==
    [log |-> <<>>, finalized |-> -1, code_bits |-> -1, filler |-> -1,
     stage |-> "none", handed |-> <<>>]

\* lines 127-205 with export = False.  The result is the instance after the
\* call, the exception raised ("None" for a normal return) and what the call
\* computed on the way: log (the merges), finalized (the length of
\* sorted_frequency when lines 171-172 ran), code_bits (len(encoded) before
\* padding), filler (the bits the padding loop appended).
compress(self, alt_in) ==
    LET s1 == IF Truthy(alt_in) THEN new_worker(self, alt_in.buf) ELSE self
        working_frequency == CountFrequency(s1.worker)
        built == MergeLoop(InitCandidates(working_frequency), <<>>)
        sorted_frequency == built.sorted_frequency
        tree == MkList([i \in 1..Len(sorted_frequency) |-> sorted_frequency[i][1]])
        pr == [NoProbe EXCEPT !.log = built.log, !.finalized = Len(sorted_frequency),
                              !.stage = "finalize"]
    IN IF Len(sorted_frequency) < 2
       THEN \* line 172 raises IndexError; lines 143 and 171 have assigned
            [self |-> [s1 EXCEPT !.comp_tools.frequency = working_frequency,
                                 !.comp_tools.tree = tree],
             err |-> "IndexError", probe |-> pr]
       ELSE LET trace == DictMerge(char_count(0, sorted_frequency[1][3]),
                                   char_count(1, sorted_frequency[2][3]))
                tools == [frequency |-> working_frequency, tree |-> tree, trace |-> trace]
                encoded == Encode(trace, s1.worker)
                padded == PadLoop(encoded, 0)
                byte_convert == Chunk(padded.padding, padded.encoded)
                pickle_tree == dumps(tree)
                len_tree == ToBytes2(Len(pickle_tree))
                pr2 == [pr EXCEPT !.code_bits = Len(encoded),
                                  !.filler = Len(padded.encoded) - Len(encoded),
                                  !.stage = "done"]
            IN IF len_tree.err # "None"
               THEN [self |-> [s1 EXCEPT !.comp_tools = tools],
                     err |-> "OverflowError", probe |-> pr2]
               ELSE [self |-> [s1 EXCEPT !.comp_tools = tools,
                                         !.output = len_tree.val \o pickle_tree \o byte_convert],
                     err |-> "None", probe |-> pr2]

(***************************************************************************)
(* decompress, lines 207-259 with export = False.                          *)
(***************************************************************************)
\* bin(num)[2:].zfill(8): eight bits, most significant first
ByteToBits(num) == [k \in 1..8 |-> (num \div (2 ^ (8 - k))) % 2]

\* lines 240-242
Expand(decomp_string) ==
    Concat([i \in 1..Len(decomp_string) |-> ByteToBits(decomp_string[i])])

\* line 244: bit_string[:-padding]
StripPadding(bit_string, padding) == PySliceTo(bit_string, 0 - padding)

RECURSIVE recursion(_, _)
\* lines 209-225
recursion(branch, section) ==
    IF section = <<>> THEN [err |-> "IndexError", char |-> 0, cut_down |-> <<>>]
    ELSE IF IsInt(branch) THEN [err |-> "TypeError", char |-> 0, cut_down |-> <<>>]
    ELSE LET new_val == section[1]
             cut_down == Tail(section)
         IN IF new_val >= Len(branch.kids)
            THEN [err |-> "IndexError", char |-> 0, cut_down |-> <<>>]
            ELSE IF IsInt(branch.kids[new_val + 1])
                 THEN [err |-> "None", char |-> branch.kids[new_val + 1].val,
                       cut_down |-> cut_down]
                 ELSE recursion(branch.kids[new_val + 1], cut_down)

RECURSIVE DecodeLoop(_, _, _)
\* lines 249-254
DecodeLoop(decomp_tree, bit_string, decoded) ==
    IF bit_string = <<>> THEN [err |-> "None", decoded |-> decoded]
    ELSE LET r == recursion(decomp_tree, bit_string)
         IN IF r.err # "None" THEN [err |-> r.err, decoded |-> decoded]
            ELSE DecodeLoop(decomp_tree, r.cut_down, Append(decoded, r.char))

\* The result is as for compress; the probe holds stage ("split" while the
\* frame is taken apart, lines 235-238, "decode" from line 240 on, "done" at
\* the return) and handed, the bit_string the decoding loop starts from.
decompress(self, alt_in) ==
    LET s1 == IF Truthy(alt_in) THEN new_worker(self, alt_in.buf) ELSE self
        w == s1.worker
        len_tree == FromBig(PySlice(w, 0, 2))
        loaded == loads(PySlice(w, 2, len_tree + 2))
        padding == ByteAt(w, len_tree + 2)
        decomp_string == PySlice(w, len_tree + 3, Len(w))
        bit_string == StripPadding(Expand(decomp_string), padding.val)
        run == DecodeLoop(loaded.obj, bit_string, <<>>)
        split == [NoProbe EXCEPT !.stage = "split"]
    IN IF loaded.err # "None" THEN [self |-> s1, err |-> loaded.err, probe |-> split]
       ELSE IF padding.err # "None" THEN [self |-> s1, err |-> padding.err, probe |-> split]
       ELSE IF run.err # "None"
            THEN [self |-> s1, err |-> run.err,
                  probe |-> [NoProbe EXCEPT !.stage = "decode", !.handed = bit_string]]
       ELSE [self |-> [s1 EXCEPT !.output = run.decoded], err |-> "None",
             probe |-> [NoProbe EXCEPT !.stage = "done", !.handed = bit_string]]

(***************************************************************************)
(* The state machine.  worker, output and comp_tools are the fields of one *)
(* Huffman instance.  call describes the last call made on it: op, the     *)
(* alt_in argument, the exception err, output as it was before the call,   *)
(* and origin, the buffer a frame passed to decompress was compressed      *)
(* from.  probe holds what that call computed on the way.                  *)
(***************************************************************************)
Self == [worker |-> worker, output |-> output, comp_tools |-> comp_tools]

NoOrigin == [is |-> FALSE, buf |-> <<>>]

Apply(op, r, alt_in, origin) ==
    /\ worker' = r.self.worker
    /\ output' = r.self.output
    /\ comp_tools' = r.self.comp_tools
    /\ call' = [op |-> op, alt_in |-> alt_in, err |-> r.err,
                prev_output |-> output, origin |-> origin]
    /\ probe' = r.probe

\* Huffman(content_in), export never requested
Init ==
    \E content_in \in Buffers :
        /\ worker = NewInstance(content_in).worker
        /\ output = NewInstance(content_in).output
        /\ comp_tools = NewInstance(content_in).comp_tools
        /\ call = [op |-> "init", alt_in |-> NoAlt, err |-> "None",
                   prev_output |-> <<>>, origin |-> NoOrigin]
        /\ probe = NoProbe

\* h.new_worker(new_in)
NewWorker ==
    \E new_in \in AltBuffers :
        Apply("new_worker",
              [self |-> new_worker(Self, new_in), err |-> "None", probe |-> NoProbe],
              Alt(new_in), NoOrigin)

\* h.compress(alt_in, export=False); buffers longer than MaxLen are not
\* compressed
Compress ==
    \E alt_in \in {NoAlt} \cup {Alt(b) : b \in AltBuffers} :
        /\ Len(IF Truthy(alt_in) THEN alt_in.buf ELSE worker) <= MaxLen
        /\ Apply("compress", compress(Self, alt_in), alt_in, NoOrigin)

\* h.decompress(alt_in, export=False)
Decompress ==
    \E alt_in \in {NoAlt} \cup {Alt(b) : b \in AltBuffers} :
        Apply("decompress", decompress(Self, alt_in), alt_in, NoOrigin)

CompressReturned == call.op = "compress" /\ call.err = "None"

\* h.decompress(h.output, export=False) right after a compress that returned
DecompressFrame ==
    /\ CompressReturned
    /\ Apply("decompress", decompress(Self, Alt(output)), Alt(output),
             [is |-> TRUE, buf |-> worker])

\* the same with only the first k bytes of the frame
DecompressTruncated ==
    /\ CompressReturned
    /\ \E k \in 0..(Len(output) - 1) :
           Apply("decompress", decompress(Self, Alt(SubSeq(output, 1, k))),
                 Alt(SubSeq(output, 1, k)), NoOrigin)

\* the same with the whole frame but a tree_length field that claims more
\* bytes than follow it
DecompressOverlong ==
    /\ CompressReturned
    /\ \E d \in 1..MaxExcess :
           LET forged == ToBytes2(Len(output) - 2 + d).val \o SubSeq(output, 3, Len(output))
           IN Apply("decompress", decompress(Self, Alt(forged)), Alt(forged), NoOrigin)

Next ==
    \/ NewWorker
    \/ Compress
    \/ Decompress
    \/ DecompressFrame
    \/ DecompressTruncated
    \/ DecompressOverlong

Spec == Init /\ [][Next]_vars

(***************************************************************************)
(* Properties.                                                             *)
(***************************************************************************)
\* the number of distinct byte values in a buffer
Distinct(b) == Cardinality({b[i] : i \in 1..Len(b)})

IsPrefix(p, q) == Len(p) <= Len(q) /\ SubSeq(q, 1, Len(p)) = p

\* the tree_length field of a frame and the parts that follow it
TreeLength(frame) == FromBig(PySlice(frame, 0, 2))

PaddingCount(frame) == frame[TreeLength(frame) + 3]

PackedBytes(frame) == SubSeq(frame, TreeLength(frame) + 4, Len(frame))

RECURSIVE SumLen(_, _)
\* the total number of code bits of buffer w under a code table
SumLen(trace, w) == IF w = <<>> THEN 0 ELSE Len(trace[Head(w)]) + SumLen(trace, Tail(w))

RECURSIVE LeafPaths(_, _)
\* every leaf of a tree with the index path that leads to it
LeafPaths(node, path) ==
    IF IsInt(node) THEN {<<node.val, path>>}
    ELSE UNION {LeafPaths(node.kids[i], Append(path, i - 1)) : i \in 1..Len(node.kids)}

RECURSIVE CountLeaves(_)
CountLeaves(node) ==
    IF IsInt(node) THEN 1
    ELSE IF Len(node.kids) = 0 THEN 0
    ELSE CountLeaves(node.kids[1]) +
         (IF Len(node.kids) > 1 THEN CountLeaves(node.kids[2]) ELSE 0)

\* C1: round trip.  When decompress is given the frame that compress made of
\* a buffer with at least 2 distinct byte values, it returns normally and
\* output is that buffer, whatever the number of code bits.
C1_RoundTrip ==
    (call.op = "decompress" /\ call.origin.is /\ Distinct(call.origin.buf) >= 2)
        => (call.err = "None" /\ output = call.origin.buf)

\* C2: prefix-free.  After a compress that returned, no code of
\* comp_tools["trace"] is a prefix of (or equal to) the code of another byte
\* value.
C2_PrefixFree ==
    CompressReturned =>
        \A a, b \in DOMAIN comp_tools.trace :
            a # b => ~IsPrefix(comp_tools.trace[a], comp_tools.trace[b])

\* a compress that returned with a code table of at least 3 codes of
\* different lengths
C2_Witness ==
    /\ CompressReturned
    /\ Cardinality(DOMAIN comp_tools.trace) >= 3
    /\ \E a, b \in DOMAIN comp_tools.trace :
           Len(comp_tools.trace[a]) < Len(comp_tools.trace[b])

\* C3: single-symbol input.  compress of a non-empty buffer with exactly one
\* distinct byte value returns normally with a frame in output, and
\* decompress of that frame returns the buffer.
C3_SingleSymbol ==
    /\ (call.op = "compress" /\ Len(worker) > 0 /\ Distinct(worker) = 1)
           => (call.err = "None" /\ output # <<>>)
    /\ (call.op = "decompress" /\ call.origin.is /\ Distinct(call.origin.buf) = 1)
           => (call.err = "None" /\ output = call.origin.buf)

\* C4: empty input.  compress with an empty worker either raises and leaves
\* output empty, or returns a frame that decompress turns into the empty
\* buffer; and lines 171-172 do not run on an empty sorted_frequency.
C4_EmptyInput ==
    (call.op = "compress" /\ worker = <<>>) =>
        /\ \/ (call.err # "None" /\ output = <<>>)
           \/ (call.err = "None" /\
               LET back == decompress(NewInstance(output), NoAlt)
               IN back.err = "None" /\ back.self.output = <<>>)
        /\ probe.finalized # 0

\* the frame of the last decompress is truncated: shorter than 3 bytes, or
\* its tree_length exceeds the bytes after the length field
TruncatedFrame ==
    Len(worker) < 3 \/ TreeLength(worker) > Len(worker) - 2

\* C5: truncated frame.  decompress of a truncated frame raises while the
\* frame is taken apart, before any bit is decoded, and output holds no
\* decoded bytes: it is what it was before the call, or empty when alt_in
\* replaced the worker.
C5_TruncatedFrame ==
    (call.op = "decompress" /\ TruncatedFrame) =>
        /\ call.err # "None"
        /\ probe.stage = "split"
        /\ probe.handed = <<>>
        /\ output = (IF Truthy(call.alt_in) THEN <<>> ELSE call.prev_output)

\* a decompress of a frame of 3 bytes or more whose tree_length claims too
\* much, whose tree still loads, and which fails at the padding byte
C5_Witness ==
    /\ call.op = "decompress"
    /\ Len(worker) >= 3
    /\ TreeLength(worker) > Len(worker) - 2
    /\ loads(PySlice(worker, 2, TreeLength(worker) + 2)).err = "None"
    /\ call.err = "IndexError"

\* C6: monotonic frequency ordering.  In every pass of the merge loop of the
\* last compress, each of the two candidates popped has a frequency no
\* larger than that of every candidate left, and the branch appended has the
\* sum of the two.
C6_Monotonic ==
    call.op = "compress" =>
        \A p \in 1..Len(probe.log) :
            LET m == probe.log[p] IN
            /\ \A j \in 1..Len(m.left) : m.set1 <= m.left[j] /\ m.set2 <= m.left[j]
            /\ m.branch = m.set1 + m.set2

\* a compress whose merge pass pops two candidates of frequency 1 and
\* leaves a candidate of a higher frequency
C6_Witness ==
    /\ CompressReturned
    /\ Len(probe.log) = 1
    /\ probe.log[1].set1 = 1
    /\ probe.log[1].set2 = 1
    /\ probe.log[1].left = <<2>>
    /\ probe.log[1].branch = 2

\* C7: no state carries across calls.  A compress or decompress given a
\* buffer as alt_in ends as the same call on a fresh instance constructed
\* with that buffer: the same exception, or the same output.
C7_NoCarryOver ==
    (call.op \in {"compress", "decompress"} /\ call.alt_in.given) =>
        LET fresh == IF call.op = "compress"
                     THEN compress(NewInstance(call.alt_in.buf), NoAlt)
                     ELSE decompress(NewInstance(call.alt_in.buf), NoAlt)
        IN /\ call.err = fresh.err
           /\ call.err = "None" => output = fresh.self.output

\* C8: padding bound.  After a compress of a buffer with at least 2 distinct
\* byte values, the padding_count byte of the frame is in 0..7, is the number
\* of filler bits appended to the concatenated codes, makes the bit length a
\* multiple of 8, and the packed part has ceil(code bits / 8) bytes.
C8_PaddingBound ==
    (CompressReturned /\ Distinct(worker) >= 2) =>
        LET bits == SumLen(comp_tools.trace, worker)
            pc == PaddingCount(output)
        IN /\ pc \in 0..7
           /\ probe.code_bits = bits
           /\ pc = probe.filler
           /\ (bits + pc) % 8 = 0
           /\ Len(PackedBytes(output)) = (bits + 7) \div 8
           /\ Len(output) = 3 + TreeLength(output) + (bits + 7) \div 8

\* a compress whose code bits fill whole bytes, so that no filler is needed
C8_Witness ==
    /\ CompressReturned
    /\ Distinct(worker) >= 2
    /\ probe.code_bits = 8
    /\ PaddingCount(output) = 0

\* C9: padding strip.  When decompress reaches the decoder with a
\* padding_count in 0..7, the bit string it decodes is the MSB-first
\* expansion of the packed bytes without its last padding_count bits.
C9_PaddingStrip ==
    (call.op = "decompress" /\ probe.stage \in {"decode", "done"}) =>
        LET bits == Expand(PackedBytes(worker))
            pc == PaddingCount(worker)
        IN (pc \in 0..7 /\ pc <= Len(bits)) =>
               probe.handed = SubSeq(bits, 1, Len(bits) - pc)

\* C10: tree and code table agree.  After a compress of a buffer with at
\* least 2 distinct byte values, the code table has an entry for exactly the
\* byte values of the frequency table; following an entry's bits through
\* comp_tools["tree"] ends on the leaf of its byte value with the last bit;
\* and every leaf of the tree is the end of exactly one entry.
C10_TreeTraceAgree ==
    (CompressReturned /\ Distinct(worker) >= 2) =>
        LET trace == comp_tools.trace
            tree == comp_tools.tree
        IN /\ DOMAIN trace = {comp_tools.frequency[j][1] : j \in 1..Len(comp_tools.frequency)}
           /\ \A c \in DOMAIN trace :
                  LET r == recursion(tree, trace[c])
                  IN r.err = "None" /\ r.char = c /\ r.cut_down = <<>>
           /\ \A lp \in LeafPaths(tree, <<>>) :
                  lp[1] \in DOMAIN trace /\ trace[lp[1]] = lp[2]
           /\ CountLeaves(tree) = Cardinality(DOMAIN trace)

\* a compress of 4 distinct byte values into a tree of two branches
C10_Witness ==
    /\ CompressReturned
    /\ Cardinality(DOMAIN comp_tools.trace) = 4
    /\ Len(comp_tools.tree.kids) = 2
    /\ ~IsInt(comp_tools.tree.kids[1])
    /\ ~IsInt(comp_tools.tree.kids[2])

====
